---- MODULE Spec2Model ----
(***************************************************************************)
(* backtest2: the partitioned parquet bar store (forex_bt/storage/         *)
(* parquet_store.py) and the hourly tick ingestion (forex_bt/ticks.py).    *)
(*                                                                         *)
(* Time is a count of instants; a calendar month holds InstantsPerMonth    *)
(* instants and a year twelve months, so .dt.year and .dt.month of a       *)
(* timestamp are computed from it.  A bar is a row [datetime, val], val    *)
(* standing for the Open/High/Low/Close/Volume columns, which the store    *)
(* carries and never inspects.                                             *)
(***************************************************************************)
EXTENDS Integers, Sequences, FiniteSets, TLC

VARIABLES files, dirs, inflight, call, result, latest, superseded, ncalls, procs, reader,
          download, stream, applied

vars == <<files, dirs, inflight, call, result, latest, superseded, ncalls, procs, reader,
          download, stream, applied>>

(***************************************************************************)
(* Bounds of the model.                                                    *)
(***************************************************************************)
InstantsPerMonth == 2
Span == 2
MaxBars == 2
MaxCalls == 3

Assets == {"EURUSD"}
Tfs == {"1m", "1h"}
Payloads == {"a", "b"}

\* The window of timestamps starts at the last instant of a December and
\* runs into the next January, so inputs cross a month and a year boundary.
FirstTime == 12 * InstantsPerMonth - 1
Times == FirstTime..(FirstTime + Span)
None == -1

Rows == [datetime : Times, val : Payloads]
Inputs == UNION {[1..n -> Rows] : n \in 0..MaxBars}

(***************************************************************************)
(* Calendar fields of a timestamp.                                         *)
(***************************************************************************)
MonthIndex(t) == t \div InstantsPerMonth
YearOf(t) == MonthIndex(t) \div 12
MonthOf(t) == (MonthIndex(t) % 12) + 1

(***************************************************************************)
(* parquet_partition_path: one file per (asset, tf, year, month).          *)
(***************************************************************************)
\* Faulty variant: the timeframe segment is left out of the path.
partition_path_without_tf(asset, tf, year, month) == <<asset, "1m", year, month>>

parquet_partition_path(asset, tf, year, month) == <<asset, tf, year, month>>

exists(fs, path) == path \in DOMAIN fs

(***************************************************************************)
(* DataFrame helpers.                                                      *)
(***************************************************************************)
RemoveAt(s, i) == SubSeq(s, 1, i - 1) \o SubSeq(s, i + 1, Len(s))

Datetimes(rows) == {rows[i].datetime : i \in 1..Len(rows)}

is_monotonic_increasing(rows) ==
    \A i \in 1..(Len(rows) - 1) : rows[i].datetime <= rows[i + 1].datetime

\* sort_values("datetime") uses the default kind (quicksort), which is not
\* stable: rows of equal datetime may come out in any order.  The operator
\* is the set of the orders the sort may return.
RECURSIVE sort_values(_)
sort_values(rows) ==
    IF rows = <<>> THEN {<<>>}
    ELSE LET least == CHOOSE t \in Datetimes(rows) : \A u \in Datetimes(rows) : t <= u
             firsts == {i \in 1..Len(rows) : rows[i].datetime = least}
         IN  UNION {{<<rows[i]>> \o s : s \in sort_values(RemoveAt(rows, i))} : i \in firsts}

\* Faulty variant: drop_duplicates(subset=["datetime"], keep="first").
drop_duplicates_keep_first(rows) ==
    LET keep(i) == \A j \in 1..(i - 1) : rows[j].datetime # rows[i].datetime
        idx == {i \in 1..Len(rows) : keep(i)}
        F[i \in 0..Len(rows)] ==
            IF i = 0 THEN <<>>
            ELSE IF i \in idx THEN Append(F[i - 1], rows[i]) ELSE F[i - 1]
    IN  F[Len(rows)]

\* drop_duplicates(subset=["datetime"], keep="last")
drop_duplicates(rows) ==
    LET keep(i) == \A j \in (i + 1)..Len(rows) : rows[j].datetime # rows[i].datetime
        idx == {i \in 1..Len(rows) : keep(i)}
        F[i \in 0..Len(rows)] ==
            IF i = 0 THEN <<>>
            ELSE IF i \in idx THEN Append(F[i - 1], rows[i]) ELSE F[i - 1]
    IN  F[Len(rows)]

\* _normalize_columns: the columns are selected and the frame is sorted only
\* when its datetimes are not already non-decreasing.
_normalize_columns(rows) ==
    IF is_monotonic_increasing(rows) THEN {rows} ELSE sort_values(rows)

(***************************************************************************)
(* parquet_upsert: the input is grouped by (year, month) of its datetimes; *)
(* each group is merged into its partition file and the file rewritten.    *)
(***************************************************************************)
GroupKey(t) == <<YearOf(t), MonthOf(t)>>

GroupKeys(rows) == {GroupKey(t) : t \in Datetimes(rows)}

\* groupby iterates its groups in ascending (year, month) order.
RECURSIVE SortedKeys(_)
SortedKeys(keys) ==
    IF keys = {} THEN <<>>
    ELSE LET k == CHOOSE g \in keys :
                    \A h \in keys : g[1] < h[1] \/ (g[1] = h[1] /\ g[2] <= h[2])
         IN  <<k>> \o SortedKeys(keys \ {k})

df_part(rows, key) == SelectSeq(rows, LAMBDA r : GroupKey(r.datetime) = key)

\* Faulty variant: the partition is replaced by the new rows, never merged.
combined_without_merge(fs, part_path, part) == {part}

\* Lines 90-98: what one group leaves in its partition file.  A file of the
\* store is never empty (every group written has a row), so the test of
\* line 92 holds whenever the file exists.
combined(fs, part_path, part) ==
    IF exists(fs, part_path)
    THEN sort_values(drop_duplicates(fs[part_path] \o part))
    ELSE {part}

to_parquet(fs, part_path, rows) == (part_path :> rows) @@ fs

\* The loop of lines 86-102 over the groups still to do, from the store fs with
\* the partitions in written already rewritten and total rows written so far:
\* the outcomes [fs, written, total] it may end in.
RECURSIVE UpsertLoop(_, _, _, _, _, _, _)
UpsertLoop(fs, asset, tf, df_new, keys, written, total) ==
    IF keys = <<>> THEN {[fs |-> fs, written |-> written, total |-> total]}
    ELSE LET part_path == parquet_partition_path(asset, tf, Head(keys)[1], Head(keys)[2])
             part == df_part(df_new, Head(keys))
         IN  UNION {UpsertLoop(to_parquet(fs, part_path, c), asset, tf, df_new, Tail(keys),
                               written \cup {part_path}, total + Len(c))
                      : c \in combined(fs, part_path, part)}

PayloadsAt(rows, t) == {rows[i].val : i \in {j \in 1..Len(rows) : rows[j].datetime = t}}

\* History: the payloads some file of (asset, tf) holds at datetime t.
StoredPayloads(fs, asset, tf, t) ==
    UNION {PayloadsAt(fs[p], t) : p \in {q \in DOMAIN fs : q[1] = asset /\ q[2] = tf}}


NoCall == [op |-> "none", asset |-> "", tf |-> "", bars |-> <<>>, start |-> None,
           end |-> None, raised |-> "none", touched |-> {}, total |-> 0]

parquet_upsert(asset, tf, bars, missing) ==
    IF missing
    THEN /\ call' = [NoCall EXCEPT !.op = "upsert", !.asset = asset, !.tf = tf,
                                   !.raised = "ValueError"]
         /\ result' = <<>>
         /\ UNCHANGED <<files, dirs, latest, superseded>>
    ELSE \E df_new \in _normalize_columns(bars) :
         \E out \in UpsertLoop(files, asset, tf, df_new, SortedKeys(GroupKeys(df_new)), {}, 0) :
            /\ files' = out.fs
            /\ dirs' = dirs \cup out.written
            /\ call' = [NoCall EXCEPT !.op = "upsert", !.asset = asset, !.tf = tf,
                                      !.bars = bars, !.touched = out.written,
                                      !.total = out.total]
            /\ result' = <<>>
            /\ superseded' = superseded \cup
                    {<<asset, tf, t>> : t \in {u \in Datetimes(bars) :
                        StoredPayloads(files, asset, tf, u) \ PayloadsAt(bars, u) # {}}}
            /\ latest' = [latest EXCEPT ![<<asset, tf>>] =
                            [t \in Times |-> IF t \in Datetimes(bars)
                                             THEN PayloadsAt(bars, t) ELSE @[t]]]

(***************************************************************************)
(* parquet_load_range.                                                     *)
(***************************************************************************)
MonthsSafety == 2400

MonthStart(m) == m * InstantsPerMonth

\* Faulty variant: the enumeration stops before a month that begins exactly at
\* the end.
RECURSIVE LastMonth_before_end(_, _)
LastMonth_before_end(cur, end_dt) ==
    IF MonthStart(cur + 1) >= end_dt THEN cur ELSE LastMonth_before_end(cur + 1, end_dt)

\* Lines 134-139 with an end: the month the enumeration stops at.
RECURSIVE LastMonth(_, _)
LastMonth(cur, end_dt) ==
    IF MonthStart(cur + 1) > end_dt THEN cur ELSE LastMonth(cur + 1, end_dt)

\* Lines 132-147: is the month with index m among the months enumerated?
\* With a start the loop runs from start's month on, to LastMonth or, without an
\* end, until more than MonthsSafety months are listed; without a start every
\* month directory of the key is listed.
IsListed(m, start_dt, end_dt) ==
    IF start_dt # None
    THEN /\ MonthIndex(start_dt) <= m
         /\ m <= (IF end_dt # None THEN LastMonth(MonthIndex(start_dt), end_dt)
                                   ELSE MonthIndex(start_dt) + MonthsSafety)
    ELSE TRUE

\* The month directories of a key, as (year, month) pairs.
MonthDirs(ds, asset, tf) == {<<p[3], p[4]>> : p \in {q \in ds : q[1] = asset /\ q[2] = tf}}

MonthNumber(key) == key[1] * 12 + key[2] - 1

\* The months the store can hold a directory or a file for.
MonthsUniverse == {GroupKey(t) : t \in Times}

\* Lines 132-147: the months enumerated, in ascending order: those of the loop
\* from start on, or else the month directories found under the key.
Months(ds, asset, tf, start_dt, end_dt) ==
    SortedKeys(IF start_dt # None
               THEN {k \in MonthsUniverse : IsListed(MonthNumber(k), start_dt, end_dt)}
               ELSE MonthDirs(ds, asset, tf))

\* Lines 149-152: the enumerated partitions whose file exists, read and
\* concatenated in order.
RECURSIVE ReadParts(_, _, _, _)
ReadParts(fs, asset, tf, keys) ==
    IF keys = <<>> THEN <<>>
    ELSE LET part_path == parquet_partition_path(asset, tf, Head(keys)[1], Head(keys)[2])
         IN  (IF exists(fs, part_path) THEN fs[part_path] ELSE <<>>)
                \o ReadParts(fs, asset, tf, Tail(keys))

\* Faulty variant: the end bound of the filter is left out.
InRange_without_end(r, start_dt, end_dt) == start_dt # None => r.datetime >= start_dt

\* Lines 160-163: the filter to [start, end], both bounds inclusive.
InRange(r, start_dt, end_dt) ==
    /\ start_dt # None => r.datetime >= start_dt
    /\ end_dt # None => r.datetime <= end_dt

\* Faulty variant: the frame is filtered and returned as read, neither sorted
\* nor deduplicated.
load_range_as_read(fs, ds, asset, tf, start_dt, end_dt) ==
    LET df == ReadParts(fs, asset, tf, Months(ds, asset, tf, start_dt, end_dt))
    IN  {SelectSeq(df, LAMBDA r : InRange(r, start_dt, end_dt))}

\* Lines 128-168: the frames parquet_load_range may return from the files fs
\* under the directories ds.  Without a directory of the key, and without a
\* file among the months, the frame is empty.
load_range(fs, ds, asset, tf, start_dt, end_dt) ==
    IF MonthDirs(ds, asset, tf) = {} THEN {<<>>}
    ELSE LET df == ReadParts(fs, asset, tf, Months(ds, asset, tf, start_dt, end_dt))
             kept == SelectSeq(df, LAMBDA r : InRange(r, start_dt, end_dt))
         IN  {drop_duplicates(s) : s \in sort_values(kept)}

parquet_load_range(asset, tf, start, end) ==
    /\ UNCHANGED <<files, dirs, latest, superseded>>
    /\ IF start # None /\ end # None /\ start > end
       THEN /\ call' = [NoCall EXCEPT !.op = "load", !.asset = asset, !.tf = tf,
                                      !.start = start, !.end = end,
                                      !.raised = "ValueError"]
            /\ result' = <<>>
       ELSE /\ call' = [NoCall EXCEPT !.op = "load", !.asset = asset, !.tf = tf,
                                      !.start = start, !.end = end]
            /\ result' \in load_range(files, dirs, asset, tf, start, end)

Init ==
    /\ files = <<>>
    /\ dirs = {}
    /\ inflight = {}
    /\ call = NoCall
    /\ result = <<>>
    /\ latest = [k \in Assets \X Tfs |-> [t \in Times |-> {}]]
    /\ ncalls = 0
    /\ superseded = {}
    /\ procs = <<>>
    /\ reader = <<>>
    /\ download = <<>>
    /\ stream = <<>>
    /\ applied = <<>>

Upsert ==
    \E asset \in Assets, tf \in Tfs, bars \in Inputs, missing \in BOOLEAN :
        /\ missing => bars = <<>>
        /\ ncalls < MaxCalls
        /\ ncalls' = ncalls + 1
        /\ parquet_upsert(asset, tf, bars, missing)
        /\ UNCHANGED <<inflight, procs, reader, download, stream, applied>>

LoadRange ==
    \E asset \in Assets, tf \in Tfs, start \in Times \cup {None}, end \in Times \cup {None} :
        /\ ncalls < MaxCalls
        /\ ncalls' = ncalls + 1
        /\ parquet_load_range(asset, tf, start, end)
        /\ UNCHANGED <<inflight, procs, reader, download, stream, applied>>

Next == Upsert \/ LoadRange

Spec == Init /\ [][Next]_vars

(***************************************************************************)
(* Properties of the store under sequential calls (Spec).                  *)
(***************************************************************************)
Keys == Assets \X Tfs

CountAt(rows, t) == Cardinality({i \in 1..Len(rows) : rows[i].datetime = t})

PathOf(asset, tf, t) == <<asset, tf, YearOf(t), MonthOf(t)>>

UpsertStep == ncalls' = ncalls + 1 /\ call'.op = "upsert" /\ call'.raised = "none"

\* C1: running parquet_upsert a second time in a row with the same asset,
\* timeframe and bars leaves every partition file with the rows the first run
\* left (the second run changes nothing).
C1_UpsertIdempotent ==
    [][(/\ UpsertStep
        /\ call.op = "upsert" /\ call.raised = "none"
        /\ call'.asset = call.asset /\ call'.tf = call.tf /\ call'.bars = call.bars)
       => files' = files]_vars

\* C2: when parquet_load_range returns, every datetime T of its range that an
\* upsert of the key supplied appears in exactly one returned bar, and that bar
\* carries a payload of the most recent upsert that supplied T: the newest
\* write wins over what was stored before.
C2_NewestWins ==
    (call.op = "load" /\ call.raised = "none") =>
        \A t \in Times :
            (/\ latest[<<call.asset, call.tf>>][t] # {}
             /\ call.start # None => call.start <= t
             /\ call.end # None => t <= call.end)
            => /\ CountAt(result, t) = 1
               /\ PayloadsAt(result, t) \subseteq latest[<<call.asset, call.tf>>][t]

\* C2 witness: a load has returned the bar of a datetime whose stored payload an
\* upsert with a single, different payload had replaced.
C2_Witness ==
    /\ call.op = "load" /\ call.raised = "none"
    /\ \E t \in Times :
        /\ <<call.asset, call.tf, t>> \in superseded
        /\ Cardinality(latest[<<call.asset, call.tf>>][t]) = 1
        /\ PayloadsAt(result, t) = latest[<<call.asset, call.tf>>][t]

\* C3: every partition file is sorted ascending by datetime and holds no two
\* rows of the same datetime.
C3_SortedNoDuplicates ==
    \A p \in DOMAIN files :
        \A i, j \in 1..Len(files[p]) :
            i < j => files[p][i].datetime < files[p][j].datetime

\* C6: a datetime T that some upsert of a key supplied is held by the store in
\* every later state, and each stored bar at T carries a payload of the most
\* recent upsert whose input contained T.
C6_SupersededNeverLost ==
    \A k \in Keys : \A t \in Times :
        latest[k][t] # {} =>
            /\ StoredPayloads(files, k[1], k[2], t) # {}
            /\ StoredPayloads(files, k[1], k[2], t) \subseteq latest[k][t]

\* C6 witness: an upsert has rewritten the partition of a stored datetime T
\* without supplying T, after an earlier upsert had superseded the bar at T.
C6_Witness ==
    /\ call.op = "upsert" /\ call.raised = "none"
    /\ \E t \in Times :
        /\ <<call.asset, call.tf, t>> \in superseded
        /\ t \notin Datetimes(call.bars)
        /\ PathOf(call.asset, call.tf, t) \in call.touched
        /\ StoredPayloads(files, call.asset, call.tf, t) = latest[<<call.asset, call.tf>>][t]

ReadPaths == {PathOf("EURUSD", "1m", t) : t \in Times}

RECURSIVE TotalRows(_)
TotalRows(fs) ==
    IF DOMAIN fs = {} THEN 0
    ELSE LET p == CHOOSE q \in DOMAIN fs : TRUE
         IN  Len(fs[p]) + TotalRows([q \in DOMAIN fs \ {p} |-> fs[q]])

ArbitraryStores ==
    UNION {{fs \in [P -> Inputs] : TotalRows(fs) <= MaxBars} : P \in SUBSET ReadPaths}

InitRead ==
    /\ files \in ArbitraryStores
    /\ dirs = DOMAIN files
    /\ inflight = {}
    /\ call = NoCall
    /\ result = <<>>
    /\ latest = [k \in Assets \X Tfs |-> [t \in Times |-> {}]]
    /\ superseded = {}
    /\ ncalls = MaxCalls - 1
    /\ procs = <<>>
    /\ reader = <<>>
    /\ download = <<>>
    /\ stream = <<>>
    /\ applied = <<>>

SpecRead == InitRead /\ [][LoadRange]_vars

LoadReturned == call.op = "load" /\ call.raised = "none"

\* C8: parquet_load_range returns its bars in ascending datetime order with no
\* two bars of equal datetime, whatever the partition files hold.
C8_LoadStrictlyAscending ==
    LoadReturned =>
        \A i, j \in 1..Len(result) : i < j => result[i].datetime < result[j].datetime

\* C8 witness: a load has returned exactly one bar for a datetime that a
\* partition file holds in two rows.
C8_Witness ==
    /\ LoadReturned
    /\ Len(result) >= 1
    /\ \E p \in DOMAIN files : \E i, j \in 1..Len(files[p]) :
        /\ i < j
        /\ files[p][i].datetime = files[p][j].datetime
        /\ CountAt(result, files[p][i].datetime) = 1

\* C9: no bar returned by parquet_load_range has a datetime before start or
\* after end, for each of the bounds that is given.
C9_LoadWithinRange ==
    LoadReturned =>
        \A i \in 1..Len(result) :
            /\ call.start # None => call.start <= result[i].datetime
            /\ call.end # None => result[i].datetime <= call.end

\* C9 witness: a load with both bounds has returned a bar while a partition it
\* read holds a bar after end and the store holds one before start.
C9_Witness ==
    /\ LoadReturned
    /\ call.start # None /\ call.end # None
    /\ Len(result) >= 1
    /\ \E p \in DOMAIN files : \E i \in 1..Len(files[p]) :
        /\ files[p][i].datetime > call.end
        /\ MonthOf(call.end) = p[4]
        /\ p[1] = call.asset /\ p[2] = call.tf

(***************************************************************************)
(* Concurrent callers (SpecConc).  The store has no lock: two processes    *)
(* may run parquet_upsert, and one parquet_load_range, at the same time.   *)
(* A call is then a run of steps: per group the existence test and read of *)
(* lines 90-98, and the rewrite of line 100, which to_parquet does in      *)
(* place: the file is opened and truncated at part_path, filled, and       *)
(* closed.  inflight holds <<process, path>> while a rewrite is under way; *)
(* a file under rewrite is not a complete parquet file and read_parquet    *)
(* raises on it.  When two rewrites of one path overlap, the file is taken *)
(* to hold the rows of the one that closes last.                           *)
(***************************************************************************)
MaxConcCalls == 2

Writers == {"w1", "w2"}

Idle == [pc |-> "idle", asset |-> "", tf |-> "", df_new |-> <<>>, keys |-> <<>>,
         comb |-> <<>>]

ReaderIdle == [pc |-> "idle", asset |-> "", tf |-> "", start |-> None, end |-> None,
               keys |-> <<>>, df |-> <<>>, raised |-> "none"]

\* Faulty variant: every file that exists is taken to parse.
Partial_never(path) == FALSE

\* The file at path was opened for a rewrite that has not been closed.
Partial(path) == \E e \in inflight : e[2] = path

CurrentPath(pr) == parquet_partition_path(pr.asset, pr.tf, Head(pr.keys)[1], Head(pr.keys)[2])

\* Lines 81-86: the frame is normalised and grouped.
WBegin(w) ==
    \E asset \in Assets, tf \in Tfs, bars \in Inputs :
    \E df_new \in _normalize_columns(bars) :
        /\ procs[w].pc = "idle"
        /\ ncalls < MaxConcCalls
        /\ ncalls' = ncalls + 1
        /\ procs' = [procs EXCEPT ![w] =
                [pc |-> IF GroupKeys(df_new) = {} THEN "done" ELSE "read",
                 asset |-> asset, tf |-> tf, df_new |-> df_new,
                 keys |-> SortedKeys(GroupKeys(df_new)), comb |-> <<>>]]
        /\ UNCHANGED <<files, dirs, inflight, call, result, latest, superseded, reader, download, stream, applied>>

\* Lines 87-98: the partition's directory is made, the file is tested for,
\* read, and merged with the group.
WRead(w) ==
    /\ procs[w].pc = "read"
    /\ dirs' = dirs \cup {CurrentPath(procs[w])}
    /\ IF exists(files, CurrentPath(procs[w])) /\ Partial(CurrentPath(procs[w]))
       THEN procs' = [procs EXCEPT ![w].pc = "failed"]
       ELSE \E c \in combined(files, CurrentPath(procs[w]),
                              df_part(procs[w].df_new, Head(procs[w].keys))) :
                procs' = [procs EXCEPT ![w].pc = "write", ![w].comb = c]
    /\ UNCHANGED <<files, inflight, call, result, latest, superseded, ncalls, reader, download, stream, applied>>

\* Line 100, first half: to_parquet opens part_path for writing.
WOpen(w) ==
    /\ procs[w].pc = "write"
    /\ files' = to_parquet(files, CurrentPath(procs[w]), <<>>)
    /\ inflight' = inflight \cup {<<w, CurrentPath(procs[w])>>}
    /\ procs' = [procs EXCEPT ![w].pc = "writing"]
    /\ UNCHANGED <<dirs, call, result, latest, superseded, ncalls, reader, download, stream, applied>>

\* Line 100, second half: the rows are written and the file closed; the loop
\* goes on to the next group or the call returns.
WClose(w) ==
    /\ procs[w].pc = "writing"
    /\ files' = to_parquet(files, CurrentPath(procs[w]), procs[w].comb)
    /\ inflight' = inflight \ {<<w, CurrentPath(procs[w])>>}
    /\ procs' = [procs EXCEPT ![w].pc = IF Tail(procs[w].keys) = <<>> THEN "done" ELSE "read",
                              ![w].keys = Tail(procs[w].keys),
                              ![w].comb = <<>>]
    /\ UNCHANGED <<dirs, call, result, latest, superseded, ncalls, reader, download, stream, applied>>

\* Lines 115-147: the range is checked, the key's directory is looked for and
\* the months to read are enumerated.
RBegin ==
    \E asset \in Assets, tf \in Tfs, start \in Times \cup {None}, end \in Times \cup {None} :
        /\ reader.pc = "idle"
        /\ ncalls < MaxConcCalls
        /\ ncalls' = ncalls + 1
        /\ reader' =
            IF start # None /\ end # None /\ start > end
            THEN [ReaderIdle EXCEPT !.pc = "failed", !.asset = asset, !.tf = tf,
                                    !.start = start, !.end = end, !.raised = "ValueError"]
            ELSE IF MonthDirs(dirs, asset, tf) = {}
            THEN [ReaderIdle EXCEPT !.pc = "done", !.asset = asset, !.tf = tf,
                                    !.start = start, !.end = end]
            ELSE [ReaderIdle EXCEPT !.pc = "read", !.asset = asset, !.tf = tf,
                                    !.start = start, !.end = end,
                                    !.keys = Months(dirs, asset, tf, start, end)]
        /\ result' = <<>>
        /\ UNCHANGED <<files, dirs, inflight, call, latest, superseded, procs, download, stream, applied>>

\* Lines 149-152: the next listed partition is read if its file exists.
RRead ==
    /\ reader.pc = "read"
    /\ reader.keys # <<>>
    /\ LET path == parquet_partition_path(reader.asset, reader.tf,
                                          Head(reader.keys)[1], Head(reader.keys)[2])
       IN  reader' =
             IF ~exists(files, path) THEN [reader EXCEPT !.keys = Tail(@)]
             ELSE IF Partial(path)
                  THEN [reader EXCEPT !.pc = "failed", !.raised = "ArrowInvalid"]
                  ELSE [reader EXCEPT !.keys = Tail(@), !.df = @ \o files[path]]
    /\ UNCHANGED <<files, dirs, inflight, call, result, latest, superseded, ncalls, procs, download, stream, applied>>

\* Lines 154-168: the frames read are filtered, sorted, deduplicated, returned.
RReturn ==
    /\ reader.pc = "read"
    /\ reader.keys = <<>>
    /\ \E s \in sort_values(SelectSeq(reader.df,
                                      LAMBDA r : InRange(r, reader.start, reader.end))) :
            result' = drop_duplicates(s)
    /\ reader' = [reader EXCEPT !.pc = "done"]
    /\ UNCHANGED <<files, dirs, inflight, call, latest, superseded, ncalls, procs, download, stream, applied>>

InitConc ==
    /\ files = <<>>
    /\ dirs = {}
    /\ inflight = {}
    /\ call = NoCall
    /\ result = <<>>
    /\ latest = [k \in Assets \X Tfs |-> [t \in Times |-> {}]]
    /\ superseded = {}
    /\ ncalls = 0
    /\ procs = [w \in Writers |-> Idle]
    /\ reader = ReaderIdle
    /\ download = <<>>
    /\ stream = <<>>
    /\ applied = <<>>

NextConc ==
    \/ \E w \in Writers : WBegin(w) \/ WRead(w) \/ WOpen(w) \/ WClose(w)
    \/ RBegin
    \/ RRead
    \/ RReturn

SpecConc == InitConc /\ [][NextConc]_vars

\* C4: when two concurrent parquet_upsert calls have both returned, the store
\* holds a bar at every datetime of either call's input: no call's rows are
\* lost to the other.
C4_NoLostUpdate ==
    (\A w \in Writers : procs[w].pc = "done") =>
        \A w \in Writers : \A t \in Datetimes(procs[w].df_new) :
            StoredPayloads(files, procs[w].asset, procs[w].tf, t) # {}

\* C5: a parquet_load_range that runs beside a parquet_upsert never reads a
\* partition file that is partly written: every file it reads is complete.
C5_NoTornRead == reader.raised # "ArrowInvalid"

\* ---------------------------------------------------------------------
\* Tick ingestion: forex_bt/ticks.py
\* ---------------------------------------------------------------------

\* Time is counted in milliseconds from the first hour of the download
\* directory; an hour has MinutesPerHour minutes of MsPerMinute milliseconds.
MsPerMinute == 2
MinutesPerHour == 2
MaxHour == 2
MaxTicks == 2
MsPerHour == MsPerMinute * MinutesPerHour
Hours == 0..MaxHour

\* Byte width of one record of DTYPE: five 4-byte fields.
RecordWidth == 20

\* One record of DTYPE.  Prices are in points (1e-5 of the quote unit).
TickRecords == [ms : 0..(MsPerHour - 1), bidp : {1}, askp : {2}, bidv : {1}, askv : {1}]

\* What the download directory can hold for one hour:
\*   missing      no file at the hour's path
\*   zero_length  a file of 0 bytes
\*   malformed    bytes that the LZMA decoder rejects (lzma.LZMAError)
\*   truncated    an LZMA stream cut before its end-of-stream marker (EOFError)
\*   data         a complete LZMA stream of Len(records) whole records followed
\*                by extra < RecordWidth bytes
NoData == {[kind |-> k, records |-> <<>>, extra |-> 0] :
               k \in {"missing", "zero_length", "malformed", "truncated"}}

DataFiles(n) == [kind : {"data"}, records : [1..n -> TickRecords], extra : {0, 1}]

HourFiles == NoData \cup UNION {DataFiles(n) : n \in 0..MaxTicks}

RECURSIVE TotalTicks(_, _)
TotalTicks(dl, h) ==
    IF h < 0 THEN 0 ELSE Len(dl[h].records) + TotalTicks(dl, h - 1)

FloorHour(t) == (t \div MsPerHour) * MsPerHour

dukascopy_hour_path(dl, dt) == dl[dt \div MsPerHour]

EmptyTicks == <<>>

RawLength(f) == Len(f.records) * RecordWidth + f.extra

decode_ticks(f, origin) ==
    [i \in 1..Len(f.records) |->
        [datetime |-> origin + f.records[i].ms,
         price |-> f.records[i].bidp,
         volume |-> f.records[i].bidv]]

\* decode_hour_file as its outcome: the exception it raises ("" for none) and
\* the ticks it returns.
decode_hour_file(f, origin) ==
    IF f.kind = "missing" THEN [raised |-> "FileNotFoundError", ticks |-> EmptyTicks]
    ELSE IF f.kind = "zero_length" THEN [raised |-> "", ticks |-> EmptyTicks]
    ELSE IF f.kind = "malformed" THEN [raised |-> "", ticks |-> EmptyTicks]
    ELSE IF f.kind = "truncated" THEN [raised |-> "EOFError", ticks |-> EmptyTicks]
    ELSE IF RawLength(f) = 0 THEN [raised |-> "", ticks |-> EmptyTicks]
    ELSE IF RawLength(f) % RecordWidth # 0 THEN [raised |-> "ValueError", ticks |-> EmptyTicks]
    ELSE [raised |-> "", ticks |-> decode_ticks(f, origin)]

NaN == 0 - 1

FloorMinute(t) == (t \div MsPerMinute) * MsPerMinute

\* The rows of the window [m, m + 1min), in index order.
Window(ticks, m) == SelectSeq(ticks, LAMBDA r : FloorMinute(r.datetime) = m)

RECURSIVE SumVolume(_)
SumVolume(w) == IF w = <<>> THEN 0 ELSE Head(w).volume + SumVolume(Tail(w))

\* max replaced by first.
MaxPrice_as_first(w) == w[1].price

MaxPrice(w) == CHOOSE p \in {w[i].price : i \in 1..Len(w)} :
                   \A i \in 1..Len(w) : w[i].price <= p

MinPrice(w) == CHOOSE p \in {w[i].price : i \in 1..Len(w)} :
                   \A i \in 1..Len(w) : p <= w[i].price

\* One row of resample("1min", label="left", closed="left").agg(...): the
\* price columns of a window without rows are NaN, its volume sum is 0.
agg(ticks, m) ==
    LET w == Window(ticks, m)
    IN  IF w = <<>>
        THEN [datetime |-> m, Open |-> NaN, High |-> NaN, Low |-> NaN,
              Close |-> NaN, Volume |-> 0]
        ELSE [datetime |-> m, Open |-> w[1].price, High |-> MaxPrice(w),
              Low |-> MinPrice(w), Close |-> w[Len(w)].price,
              Volume |-> SumVolume(w)]

\* The windows from the one of the first row to the one of the last row.
resample(ticks) ==
    IF ticks = <<>> THEN <<>>
    ELSE LET first == FloorMinute(ticks[1].datetime)
             last == FloorMinute(ticks[Len(ticks)].datetime)
         IN  [i \in 1..((last - first) \div MsPerMinute + 1) |->
                 agg(ticks, first + (i - 1) * MsPerMinute)]

\* dropna left out: the rows of empty windows stay.
dropna_keeps_rows(ohlcv) == ohlcv

dropna(ohlcv) ==
    SelectSeq(ohlcv, LAMBDA b : b.Open # NaN /\ b.High # NaN
                                /\ b.Low # NaN /\ b.Close # NaN)

\* The possible results of aggregate_ticks_to_1m: sort_index does not fix
\* the order of ticks with the same timestamp.
aggregate_ticks_to_1m(ticks) ==
    {dropna(resample(sorted)) :
        sorted \in IF is_monotonic_increasing(ticks) THEN {ticks}
                   ELSE sort_values(ticks)}

StreamIdle == [pc |-> "idle", start |-> 0, end |-> 0, cur |-> 0,
               yielded |-> <<>>, raised |-> ""]

StreamTimes == {h * MsPerHour + o : h \in Hours, o \in {0, 1}}

\* stream_aggregate_1m is called: iter_hour_paths floors start to the hour.
StreamStart ==
    \E start \in StreamTimes, end \in StreamTimes :
        /\ stream.pc = "idle"
        /\ stream' = [StreamIdle EXCEPT !.pc = "loop", !.start = start,
                         !.end = end, !.cur = FloorHour(start)]
        /\ UNCHANGED <<files, dirs, inflight, call, result, latest, superseded,
                       ncalls, procs, reader, download, applied>>

\* One turn of the loop of stream_aggregate_1m, or its end.
StreamNext ==
    /\ stream.pc = "loop"
    /\ IF stream.cur <= stream.end
       THEN LET out == decode_hour_file(dukascopy_hour_path(download, stream.cur),
                                        stream.cur)
                next == stream.cur + MsPerHour
            IN  IF out.raised = "FileNotFoundError"
                THEN stream' = [stream EXCEPT !.cur = next]
                ELSE IF out.raised # ""
                THEN stream' = [stream EXCEPT !.pc = "raised", !.raised = out.raised]
                ELSE IF out.ticks = EmptyTicks
                THEN stream' = [stream EXCEPT !.cur = next]
                ELSE \E minute_bars \in aggregate_ticks_to_1m(out.ticks) :
                        stream' = [stream EXCEPT
                            !.cur = next,
                            !.yielded = IF minute_bars # <<>>
                                        THEN Append(@, minute_bars) ELSE @]
       ELSE stream' = [stream EXCEPT !.pc = "done"]
    /\ UNCHANGED <<files, dirs, inflight, call, result, latest, superseded,
                   ncalls, procs, reader, download, applied>>

InitIngest ==
    /\ files = <<>>
    /\ dirs = {}
    /\ inflight = {}
    /\ call = NoCall
    /\ result = <<>>
    /\ latest = [k \in Assets \X Tfs |-> [t \in Times |-> {}]]
    /\ superseded = {}
    /\ ncalls = 0
    /\ procs = <<>>
    /\ reader = <<>>
    /\ download \in {dl \in [Hours -> HourFiles] : TotalTicks(dl, MaxHour) <= MaxTicks}
    /\ stream = StreamIdle
    /\ applied = <<>>

NextIngest == StreamStart \/ StreamNext

SpecIngest == InitIngest /\ [][NextIngest]_vars

\* The hours that the called range covers: from the hour of start to the
\* last hour that begins at or before end.
RangeHours ==
    {h \in Hours : FloorHour(stream.start) <= h * MsPerHour
                   /\ h * MsPerHour <= stream.end}

\* The hours of the range whose file holds ticks.
TickHours == {h \in RangeHours : download[h].records # <<>>}

RECURSIVE Ascending(_)
Ascending(S) ==
    IF S = {} THEN <<>>
    ELSE LET m == CHOOSE x \in S : \A y \in S : x <= y
         IN  <<m>> \o Ascending(S \ {m})

\* The hours that the bars of each yielded chunk belong to.
YieldedHours ==
    [i \in 1..Len(stream.yielded) |->
        {b.datetime \div MsPerHour :
            b \in {stream.yielded[i][j] : j \in 1..Len(stream.yielded[i])}}]

\* C10: when every file of the range is missing, zero-length, fails LZMA
\* decompression, or is a complete stream of whole records,
\* stream_aggregate_1m raises no error and, once the last hour <= end has
\* been processed, has yielded one chunk of bars for each hour that holds
\* ticks, in ascending hour order, and nothing for the other hours.
C10_GapTolerance ==
    (/\ stream.pc # "idle"
     /\ \A h \in RangeHours : RawLength(download[h]) % RecordWidth = 0) =>
        /\ stream.raised = ""
        /\ stream.pc = "done" =>
               YieldedHours = [i \in 1..Cardinality(TickHours) |->
                                  {Ascending(TickHours)[i]}]

\* The part of C10 that the code keeps: missing, zero-length and malformed
\* files are passed over.
C10_CaughtGaps ==
    (/\ stream.pc # "idle"
     /\ \A h \in RangeHours : /\ RawLength(download[h]) % RecordWidth = 0
                              /\ download[h].kind # "truncated") =>
        /\ stream.raised = ""
        /\ stream.pc = "done" =>
               YieldedHours = [i \in 1..Cardinality(TickHours) |->
                                  {Ascending(TickHours)[i]}]

\* The hours of the range whose file decodes to whole records.
WholeTickHours ==
    {h \in TickHours : RawLength(download[h]) % RecordWidth = 0}

\* C11: an hour file whose decompressed length is not a multiple of the
\* 20-byte record width decodes to no ticks without raising, so
\* stream_aggregate_1m does not raise on it and goes on to the next hour:
\* once the range is done it has yielded the bars of the hours with whole
\* records, in order, and nothing for the mismatched hours.
C11_WidthMismatchRecoverable ==
    (/\ stream.pc # "idle"
     /\ \A h \in RangeHours : download[h].kind # "truncated") =>
        /\ stream.raised = ""
        /\ stream.pc = "done" =>
               YieldedHours = [i \in 1..Cardinality(WholeTickHours) |->
                                  {Ascending(WholeTickHours)[i]}]

\* ---------------------------------------------------------------------
\* Pure functions, applied to inputs drawn from bounded sets.  The variable
\* applied holds the function's arguments and, once it has run, its result.
\* ---------------------------------------------------------------------

\* No store, no download directory and no running call.
NoStore ==
    /\ files = <<>>
    /\ dirs = {}
    /\ inflight = {}
    /\ call = NoCall
    /\ result = <<>>
    /\ latest = [k \in Assets \X Tfs |-> [t \in Times |-> {}]]
    /\ superseded = {}
    /\ ncalls = 0
    /\ procs = <<>>
    /\ reader = <<>>
    /\ download = <<>>
    /\ stream = <<>>

StoreUnchanged ==
    UNCHANGED <<files, dirs, inflight, call, result, latest, superseded,
                ncalls, procs, reader, download, stream>>

\* Ticks as decode_hour_file returns them, over AggMinutes minute windows.
AggMinutes == 3
MaxAggTicks == 3
Bidps == {1, 2}
Bidvs == {1, 2}

Ticks == [datetime : 0..(AggMinutes * MsPerMinute - 1), price : Bidps, volume : Bidvs]

TickInputs == UNION {[1..n -> Ticks] : n \in 1..MaxAggTicks}

InitAggregate ==
    /\ NoStore
    /\ \E ticks \in TickInputs :
          applied = [fn |-> "aggregate_ticks_to_1m", ticks |-> ticks,
                     done |-> FALSE, out |-> <<>>]

Aggregate ==
    /\ applied.fn = "aggregate_ticks_to_1m"
    /\ ~applied.done
    /\ \E ohlcv \in aggregate_ticks_to_1m(applied.ticks) :
          applied' = [applied EXCEPT !.done = TRUE, !.out = ohlcv]
    /\ StoreUnchanged

SpecAggregate == InitAggregate /\ [][Aggregate]_vars

AggDone == applied.fn = "aggregate_ticks_to_1m" /\ applied.done

TicksSorted(ticks) ==
    \A i \in 1..(Len(ticks) - 1) : ticks[i].datetime <= ticks[i + 1].datetime

WindowStarts == {k * MsPerMinute : k \in 0..(AggMinutes - 1)}

\* The positions of the ticks that lie in the half-open window [m, m + 1min).
InWindow(ticks, m) ==
    {i \in 1..Len(ticks) : m <= ticks[i].datetime /\ ticks[i].datetime < m + MsPerMinute}

Least(S) == CHOOSE x \in S : \A y \in S : x <= y
Greatest(S) == CHOOSE x \in S : \A y \in S : y <= x

RECURSIVE VolumeOver(_, _)
VolumeOver(ticks, I) ==
    IF I = {} THEN 0
    ELSE LET i == CHOOSE x \in I : TRUE
         IN  ticks[i].volume + VolumeOver(ticks, I \ {i})

\* C12: for ticks sorted by timestamp, aggregate_ticks_to_1m returns exactly
\* one bar for each window [m, m + 1min) that holds a tick and none for a
\* window without ticks; the bar is labelled m, its open is the price of the
\* window's first tick, its high the greatest price, its low the least price,
\* its close the price of the window's last tick, its volume the sum of the
\* window's volumes.
C12_MinuteBars ==
    (AggDone /\ TicksSorted(applied.ticks)) =>
        LET ticks == applied.ticks
            bars == applied.out
        IN  /\ \A j \in 1..Len(bars) : bars[j].datetime \in WindowStarts
            /\ \A m \in WindowStarts :
                  LET I == InWindow(ticks, m)
                      J == {j \in 1..Len(bars) : bars[j].datetime = m}
                  IN  IF I = {} THEN J = {}
                      ELSE /\ Cardinality(J) = 1
                           /\ \A j \in J :
                                 /\ bars[j].Open = ticks[Least(I)].price
                                 /\ bars[j].High = Greatest({ticks[i].price : i \in I})
                                 /\ bars[j].Low = Least({ticks[i].price : i \in I})
                                 /\ bars[j].Close = ticks[Greatest(I)].price
                                 /\ bars[j].Volume = VolumeOver(ticks, I)

\* Two ticks of different price in the first window, none in the second, one
\* in the third: two bars are returned.
C12_Witness ==
    /\ AggDone
    /\ Len(applied.ticks) = 3
    /\ applied.ticks[1].datetime = 0
    /\ applied.ticks[2].datetime = MsPerMinute - 1
    /\ applied.ticks[3].datetime = 2 * MsPerMinute
    /\ applied.ticks[1].price # applied.ticks[2].price
    /\ Len(applied.out) = 2

\* ---------------------------------------------------------------------
\* Duration resampling: forex_bt/ohlcv.py
\* ---------------------------------------------------------------------

\* 1-minute bars are dated in minutes; the target timeframe "1h" has
\* BarsPerWindow minutes to the window.
BarsPerWindow == 2
ResampleWindows == 3
MaxMinuteBars == 3

Minutes == 0..(ResampleWindows * BarsPerWindow - 1)

\* Width in minutes of the windows of a target timeframe.
TF_TO_PANDAS(target_tf) == IF target_tf = "1m" THEN 1 ELSE BarsPerWindow

\* The price columns of a 1-minute bar: every bar over the prices Bidps with
\* Low <= Open, Close <= High, and one such bar with one column null.
WholeBars ==
    {b \in [Open : Bidps, High : Bidps, Low : Bidps, Close : Bidps] :
        /\ b.Low <= b.Open /\ b.Open <= b.High
        /\ b.Low <= b.Close /\ b.Close <= b.High}

NullBars ==
    LET b == [Open |-> 1, High |-> 2, Low |-> 1, Close |-> 2]
    IN  {[b EXCEPT !.Open = NaN], [b EXCEPT !.High = NaN],
         [b EXCEPT !.Low = NaN], [b EXCEPT !.Close = NaN]}

MinuteBar(t, b) ==
    [datetime |-> t, Open |-> b.Open, High |-> b.High, Low |-> b.Low,
     Close |-> b.Close, Volume |-> 1]

\* Frames as parquet_load_range returns them: not empty, strictly ascending.
MinuteFrames ==
    {df \in UNION {[1..n -> {MinuteBar(t, b) : t \in Minutes, b \in WholeBars \cup NullBars}] :
                       n \in 1..MaxMinuteBars} :
        \A i \in 1..(Len(df) - 1) : df[i].datetime < df[i + 1].datetime}

FloorWindow(t, width) == (t \div width) * width

\* The non-null values of a column of the rows of one window, in row order.
NotNull(rows, col) ==
    LET vals == [i \in 1..Len(rows) |-> rows[i][col]]
    IN  SelectSeq(vals, LAMBDA v : v # NaN)

SeqMax(vals) == CHOOSE v \in {vals[i] : i \in 1..Len(vals)} :
                    \A i \in 1..Len(vals) : vals[i] <= v

SeqMin(vals) == CHOOSE v \in {vals[i] : i \in 1..Len(vals)} :
                    \A i \in 1..Len(vals) : v <= vals[i]

RECURSIVE SeqSum(_)
SeqSum(vals) == IF vals = <<>> THEN 0 ELSE Head(vals) + SeqSum(Tail(vals))

\* One row of resample(rule).agg(...): first, max, min and last pass over
\* nulls and are null only when the window has no non-null value.
named_agg(df, m, width) ==
    LET rows == SelectSeq(df, LAMBDA r : FloorWindow(r.datetime, width) = m)
        o == NotNull(rows, "Open")
        h == NotNull(rows, "High")
        l == NotNull(rows, "Low")
        c == NotNull(rows, "Close")
    IN  [datetime |-> m,
         Open |-> IF o = <<>> THEN NaN ELSE o[1],
         High |-> IF h = <<>> THEN NaN ELSE SeqMax(h),
         Low |-> IF l = <<>> THEN NaN ELSE SeqMin(l),
         Close |-> IF c = <<>> THEN NaN ELSE c[Len(c)],
         Volume |-> SeqSum(NotNull(rows, "Volume"))]

resample_rule(df, width) ==
    LET first == FloorWindow(df[1].datetime, width)
        last == FloorWindow(df[Len(df)].datetime, width)
    IN  [i \in 1..((last - first) \div width + 1) |->
            named_agg(df, first + (i - 1) * width, width)]

resample_from_1m(df_1m, target_tf) ==
    IF target_tf = "1m" THEN df_1m
    ELSE dropna(resample_rule(df_1m, TF_TO_PANDAS(target_tf)))

InitResample ==
    /\ NoStore
    /\ \E df_1m \in MinuteFrames, target_tf \in Tfs :
          applied = [fn |-> "resample_from_1m", df_1m |-> df_1m,
                     target_tf |-> target_tf, done |-> FALSE, out |-> <<>>]

Resample ==
    /\ applied.fn = "resample_from_1m"
    /\ ~applied.done
    /\ applied' = [applied EXCEPT
                      !.done = TRUE,
                      !.out = resample_from_1m(applied.df_1m, applied.target_tf)]
    /\ StoreUnchanged

SpecResample == InitResample /\ [][Resample]_vars

ResampleDone == applied.fn = "resample_from_1m" /\ applied.done

HasNull(r) == r.Open = NaN \/ r.High = NaN \/ r.Low = NaN \/ r.Close = NaN

\* C13: resampling 1-minute bars to a longer timeframe emits no bar for a
\* window without 1-minute bars, exactly one bar for a window whose 1-minute
\* bars all have Open, High, Low and Close, and no bar for a window in which
\* a 1-minute bar has a null Open, High, Low or Close.
C13_IncompleteWindowsDropped ==
    (ResampleDone /\ applied.target_tf # "1m") =>
        \A k \in 0..(ResampleWindows - 1) :
            LET m == k * BarsPerWindow
                df == applied.df_1m
                I == {i \in 1..Len(df) :
                         m <= df[i].datetime /\ df[i].datetime < m + BarsPerWindow}
                J == {j \in 1..Len(applied.out) : applied.out[j].datetime = m}
            IN  IF I = {} \/ \E i \in I : HasNull(df[i])
                THEN J = {}
                ELSE Cardinality(J) = 1

\* Both producers of bars: minute aggregation of ticks and duration
\* resampling of 1-minute bars.
InitBars == InitAggregate \/ InitResample

NextBars == Aggregate \/ Resample

SpecBars == InitBars /\ [][NextBars]_vars

BarInvariant(b) ==
    /\ b.Low <= b.Open /\ b.Low <= b.Close
    /\ b.High >= b.Open /\ b.High >= b.Close

\* C14: every bar that aggregate_ticks_to_1m returns, and every bar that
\* resample_from_1m returns from 1-minute bars that have low <= min(open,
\* close) and high >= max(open, close), has low <= min(open, close) and
\* high >= max(open, close).
C14_BarInvariant ==
    /\ AggDone =>
          \A j \in 1..Len(applied.out) : BarInvariant(applied.out[j])
    /\ (/\ ResampleDone
        /\ \A i \in 1..Len(applied.df_1m) :
              ~HasNull(applied.df_1m[i]) /\ BarInvariant(applied.df_1m[i])) =>
          \A j \in 1..Len(applied.out) : BarInvariant(applied.out[j])

\* A minute bar whose high lies above both its open and its close.
C14_Witness ==
    /\ AggDone
    /\ \E j \in 1..Len(applied.out) :
          /\ applied.out[j].High > applied.out[j].Open
          /\ applied.out[j].High > applied.out[j].Close

\* ---------------------------------------------------------------------
\* Export path: dukascopy-data-manager.py
\* ---------------------------------------------------------------------

\* A timeframe string is the sequence of its characters.
MaxTfDigits == 1
MaxExportTicks == 4
HoursPerDay == 2
DigitChars == {"0", "1", "2", "3", "4", "5", "6", "7", "8", "9"}
TfDigits == {"0", "1", "2", "3"}
UnitChars == {"t", "s", "m", "h", "D", "W"}
OtherChars == {"x"}

DigitValue(c) ==
    CASE c = "0" -> 0 [] c = "1" -> 1 [] c = "2" -> 2 [] c = "3" -> 3 [] c = "4" -> 4
      [] c = "5" -> 5 [] c = "6" -> 6 [] c = "7" -> 7 [] c = "8" -> 8 [] c = "9" -> 9

\* The timeframe strings [-]<digits><one letter>.
TfStrings ==
    {sign \o digits \o <<u>> :
        sign \in {<<>>, <<"-">>},
        digits \in UNION {[1..n -> TfDigits] : n \in 1..MaxTfDigits},
        u \in UnitChars \cup OtherChars}

Contains(tf, c) == \E i \in 1..Len(tf) : tf[i] = c

\* tf.split(c)[0]: the characters before the first c.
SplitHead(tf, c) ==
    LET i == CHOOSE k \in 1..Len(tf) : tf[k] = c /\ \A j \in 1..(k - 1) : tf[j] # c
    IN  SubSeq(tf, 1, i - 1)

RECURSIVE DigitsValue(_)
DigitsValue(s) ==
    IF s = <<>> THEN 0
    ELSE 10 * DigitsValue(SubSeq(s, 1, Len(s) - 1)) + DigitValue(s[Len(s)])

IsDigits(s) == s # <<>> /\ \A i \in 1..Len(s) : s[i] \in DigitChars

\* int(s) accepts an optional sign before the digits.
IntParses(s) ==
    \/ IsDigits(s)
    \/ s # <<>> /\ s[1] = "-" /\ IsDigits(Tail(s))

int(s) == IF s[1] = "-" THEN 0 - DigitsValue(Tail(s)) ELSE DigitsValue(s)

\* One decoded record of the export path, prices already divided.
ExportTicks == [TIME : {0, MsPerMinute}, ASKP : {2}, BIDP : Bidps, ASKV : {1}, BIDV : Bidvs]

\* Number of groups of df.index // tick_num over an index 0..m-1.
group_count_whole(m, tick_num) == m \div tick_num

group_count(m, tick_num) == (m + tick_num - 1) \div tick_num

Column(rows, col) == [i \in 1..Len(rows) |-> rows[i][col]]

\* The bars of the groups of tick_num consecutive rows, tick_num >= 2.
tick_bars(df, tick_num) ==
    [k \in 1..group_count(Len(df), tick_num) |->
        LET lo == (k - 1) * tick_num + 1
            hi == IF k * tick_num < Len(df) THEN k * tick_num ELSE Len(df)
            rows == SubSeq(df, lo, hi)
        IN  [date |-> rows[1].TIME,
             open |-> rows[1].BIDP,
             high |-> SeqMax(Column(rows, "BIDP")),
             low |-> SeqMin(Column(rows, "BIDP")),
             close |-> rows[Len(rows)].BIDP,
             vol |-> SeqSum(Column(rows, "BIDV"))]]

\* Width in milliseconds of pd.Timedelta of one unit.
UnitWidth(u) ==
    CASE u = "s" -> 1
      [] u = "m" -> MsPerMinute
      [] u = "h" -> MsPerHour
      [] u = "D" -> HoursPerDay * MsPerHour
      [] u = "W" -> 7 * HoursPerDay * MsPerHour

\* One row of df.resample(agg_time) with first, max, min, last and sum.
duration_row(df, m, width) ==
    LET rows == SelectSeq(df, LAMBDA r : FloorWindow(r.TIME, width) = m)
    IN  IF rows = <<>>
        THEN [date |-> m, open |-> NaN, high |-> NaN, low |-> NaN,
              close |-> NaN, vol |-> 0]
        ELSE [date |-> m,
              open |-> rows[1].BIDP,
              high |-> SeqMax(Column(rows, "BIDP")),
              low |-> SeqMin(Column(rows, "BIDP")),
              close |-> rows[Len(rows)].BIDP,
              vol |-> SeqSum(Column(rows, "BIDV"))]

\* The bars of the windows of width milliseconds, rows with a null dropped.
duration_bars(df, width) ==
    IF df = <<>> THEN <<>>
    ELSE LET first == FloorWindow(Least({df[i].TIME : i \in 1..Len(df)}), width)
             last == FloorWindow(Greatest({df[i].TIME : i \in 1..Len(df)}), width)
             agg_df == [i \in 1..((last - first) \div width + 1) |->
                           duration_row(df, first + (i - 1) * width, width)]
         IN  SelectSeq(agg_df, LAMBDA b : b.open # NaN /\ b.high # NaN
                                          /\ b.low # NaN /\ b.close # NaN)

\* What a count that is not positive leads to is not fixed by this source
\* (it is left to pandas): the call raises, or returns a frame whose content
\* is not modelled.
NotPositive == {[raised |-> "ValueError", out |-> <<>>], [raised |-> "", out |-> <<>>]}

\* The possible outcomes of aggregate_data(df, tf): the exception raised
\* ("" for none) and the frame returned.
aggregate_data(df, tf) ==
    IF Contains(tf, "t")
    THEN LET head == SplitHead(tf, "t")
         IN  IF ~IntParses(head) THEN {[raised |-> "ValueError", out |-> <<>>]}
             ELSE LET tick_num == int(head)
                  IN  IF tick_num = 1 THEN {[raised |-> "", out |-> df]}
                      ELSE IF tick_num >= 2
                      THEN {[raised |-> "", out |-> tick_bars(df, tick_num)]}
                      ELSE NotPositive
    ELSE LET unit == tf[Len(tf)]
             count == SubSeq(tf, 1, Len(tf) - 1)
         IN  IF unit \notin UnitChars \/ ~IntParses(count)
             THEN {[raised |-> "ValueError", out |-> <<>>]}
             ELSE IF int(count) >= 1
             THEN {[raised |-> "", out |-> duration_bars(df, int(count) * UnitWidth(unit))]}
             ELSE NotPositive

\* Frames as export builds them, in time order.
ExportFrames ==
    {df \in UNION {[1..n -> ExportTicks] : n \in 0..MaxExportTicks} :
        \A i \in 1..(Len(df) - 1) : df[i].TIME <= df[i + 1].TIME}

InitTickBars ==
    /\ NoStore
    /\ \E df \in ExportFrames, tf \in {s \in TfStrings : Contains(s, "t")} :
          applied = [fn |-> "aggregate_data", df |-> df, tf |-> tf,
                     done |-> FALSE, raised |-> "", out |-> <<>>]

AggregateData ==
    /\ applied.fn = "aggregate_data"
    /\ ~applied.done
    /\ \E o \in aggregate_data(applied.df, applied.tf) :
          applied' = [applied EXCEPT !.done = TRUE, !.raised = o.raised,
                                     !.out = o.out]
    /\ StoreUnchanged

SpecTickBars == InitTickBars /\ [][AggregateData]_vars

AggregateDataDone == applied.fn = "aggregate_data" /\ applied.done

\* The timeframe is <digits>t with a count of at least 1.
IsTickTf(tf) ==
    /\ Len(tf) >= 2
    /\ tf[Len(tf)] = "t"
    /\ IsDigits(SubSeq(tf, 1, Len(tf) - 1))
    /\ DigitsValue(SubSeq(tf, 1, Len(tf) - 1)) >= 1

RECURSIVE BidvOver(_, _)
BidvOver(df, I) ==
    IF I = {} THEN 0
    ELSE LET i == CHOOSE x \in I : TRUE
         IN  df[i].BIDV + BidvOver(df, I \ {i})

\* C15: for a timeframe Nt with N >= 1 and M ticks, aggregate_data returns
\* ceil(M / N) bars, the k-th from the k-th run of N consecutive ticks (the
\* last run may be shorter): date and open from the run's first tick, close
\* from its last, high and low the greatest and least bid price, vol the sum
\* of bid volume; for N = 1 it returns the ticks unchanged.
C15_TickCountBars ==
    (AggregateDataDone /\ IsTickTf(applied.tf)) =>
        LET df == applied.df
            M == Len(df)
            N == DigitsValue(SubSeq(applied.tf, 1, Len(applied.tf) - 1))
            bars == applied.out
        IN  /\ applied.raised = ""
            /\ IF N = 1 THEN bars = df
               ELSE /\ Len(bars) * N >= M
                    /\ (Len(bars) - 1) * N < M
                    /\ \A k \in 1..Len(bars) :
                          LET I == {i \in 1..M : (k - 1) * N < i /\ i <= k * N}
                          IN  /\ bars[k].date = df[Least(I)].TIME
                              /\ bars[k].open = df[Least(I)].BIDP
                              /\ bars[k].close = df[Greatest(I)].BIDP
                              /\ bars[k].high = Greatest({df[i].BIDP : i \in I})
                              /\ bars[k].low = Least({df[i].BIDP : i \in I})
                              /\ bars[k].vol = BidvOver(df, I)

\* Four ticks in runs of three: a full run and a trailing run of one tick.
C15_Witness ==
    /\ AggregateDataDone
    /\ applied.tf = <<"3", "t">>
    /\ Len(applied.df) = 4
    /\ Len(applied.out) = 2
    /\ applied.out[2].open = applied.df[4].BIDP

\* ---------------------------------------------------------------------
\* Resume point: parquet_get_last_timestamp
\* ---------------------------------------------------------------------

\* The digits of n in a field of the given width, as f"{n:04d}" writes them.
Pad(n, width) == [i \in 1..width |-> (n \div (10 ^ (width - i))) % 10]

\* Order of sorted() on directory names of the same length.
LexLeq(a, b) ==
    \/ a = b
    \/ \E i \in 1..Len(a) :
          /\ \A j \in 1..(i - 1) : a[j] = b[j]
          /\ a[i] < b[i]

\* The first entry of the sorted listing.
sorted_first(S, width) == CHOOSE n \in S : \A x \in S : LexLeq(Pad(n, width), Pad(x, width))

\* The last entry of the sorted listing: years[-1], months[-1].
sorted_last(S, width) == CHOOSE n \in S : \A x \in S : LexLeq(Pad(x, width), Pad(n, width))

last_timestamp(fs, ds, asset, tf) ==
    LET month_dirs == MonthDirs(ds, asset, tf)
    IN  IF month_dirs = {} THEN None
        ELSE LET last_year == sorted_last({k[1] : k \in month_dirs}, 4)
                 last_month == sorted_last({k[2] : k \in {d \in month_dirs : d[1] = last_year}}, 2)
                 parquet_path == parquet_partition_path(asset, tf, last_year, last_month)
             IN  IF ~exists(fs, parquet_path) THEN None
                 ELSE IF fs[parquet_path] = <<>> THEN None
                 ELSE Greatest(Datetimes(fs[parquet_path]))

parquet_get_last_timestamp(asset, tf) ==
    /\ call' = [NoCall EXCEPT !.op = "last", !.asset = asset, !.tf = tf]
    /\ result' = last_timestamp(files, dirs, asset, tf)
    /\ UNCHANGED <<files, dirs, latest, superseded>>

GetLastTimestamp ==
    \E asset \in Assets, tf \in Tfs :
        /\ ncalls < MaxCalls
        /\ ncalls' = ncalls + 1
        /\ parquet_get_last_timestamp(asset, tf)
        /\ UNCHANGED <<inflight, procs, reader, download, stream, applied>>

NextResume == Upsert \/ GetLastTimestamp

SpecResume == Init /\ [][NextResume]_vars

KeyPaths(asset, tf) == {p \in DOMAIN files : p[1] = asset /\ p[2] = tf}

\* C16: parquet_get_last_timestamp returns the greatest timestamp stored for
\* the key, which lies in the last existing (year, month) partition, and
\* None when the key has no partition.
C16_ResumePoint ==
    call.op = "last" =>
        LET paths == KeyPaths(call.asset, call.tf)
            stored == UNION {Datetimes(files[p]) : p \in paths}
        IN  IF paths = {} THEN result = None
            ELSE /\ result \in stored
                 /\ \A t \in stored : t <= result
                 /\ \E p \in paths :
                       /\ result \in Datetimes(files[p])
                       /\ \A q \in paths : q[3] < p[3] \/ (q[3] = p[3] /\ q[4] <= p[4])

\* The key has a December partition of one year and a January partition of
\* the next; the resume point lies in the January partition.
C16_Witness ==
    /\ call.op = "last"
    /\ Cardinality(KeyPaths(call.asset, call.tf)) = 2
    /\ result # None
    /\ MonthOf(result) = 1

\* ---------------------------------------------------------------------
\* A store with unparsable partition files (SpecCorrupt): a writer that died
\* between the open and the close of line 100 has left its file partly
\* written.  One call, an upsert or a range read, is run on the store.
\* ---------------------------------------------------------------------
FilledStores == {fs \in ArbitraryStores : \A p \in DOMAIN fs : fs[p] # <<>>}

InitCorrupt ==
    /\ \E fs \in FilledStores, bad \in SUBSET ReadPaths :
          /\ bad \subseteq DOMAIN fs
          /\ files = [p \in DOMAIN fs |-> IF p \in bad THEN <<>> ELSE fs[p]]
          /\ inflight = {<<"crashed", p>> : p \in bad}
    /\ dirs = DOMAIN files
    /\ call = NoCall
    /\ result = <<>>
    /\ latest = [k \in Assets \X Tfs |-> [t \in Times |-> {}]]
    /\ superseded = {}
    /\ ncalls = MaxConcCalls - 1
    /\ procs = [w \in Writers |-> Idle]
    /\ reader = ReaderIdle
    /\ download = <<>>
    /\ stream = <<>>
    /\ applied = <<>>

SpecCorrupt == InitCorrupt /\ [][NextConc]_vars

\* The partition files that cannot be parsed.
Unparsable == {e[2] : e \in {x \in inflight : x[1] = "crashed"}}

\* The partition paths an upsert by w has to merge into.
WriterPaths(w) ==
    {parquet_partition_path(procs[w].asset, procs[w].tf, k[1], k[2]) :
        k \in GroupKeys(procs[w].df_new)}

\* The partition paths the reader's call has to read: with a start, the
\* months from start's to end's; without one, every partition of the key.
ReaderPaths ==
    {parquet_partition_path(reader.asset, reader.tf, k[1], k[2]) :
        k \in {g \in MonthsUniverse :
                  reader.start # None =>
                      /\ MonthNumber(g) >= MonthIndex(reader.start)
                      /\ reader.end # None => MonthNumber(g) <= MonthIndex(reader.end)}}

\* C17: an absent partition file is no data and no error for parquet_upsert
\* and parquet_load_range; a partition file that is present and cannot be
\* parsed makes the call that meets it fail: no read passes over it and no
\* upsert replaces it.
C17_CorruptionSurfaced ==
    /\ \A p \in Unparsable : p \in DOMAIN files /\ files[p] = <<>>
    /\ \A w \in Writers :
          /\ procs[w].pc = "done" => WriterPaths(w) \cap Unparsable = {}
          /\ procs[w].pc = "failed" => WriterPaths(w) \cap Unparsable # {}
    /\ reader.pc = "done" => ReaderPaths \cap Unparsable = {}
    /\ (reader.pc = "failed" /\ reader.raised # "ValueError") =>
          ReaderPaths \cap Unparsable # {}

\* An upsert of two months whose second partition file cannot be parsed: the
\* first month is written, the call fails at the second.
C17_Witness ==
    \E w \in Writers :
        /\ procs[w].pc = "failed"
        /\ Cardinality(WriterPaths(w)) = 2
        /\ Cardinality(WriterPaths(w) \cap Unparsable) = 1
        /\ \E p \in WriterPaths(w) \ Unparsable : p \in DOMAIN files /\ files[p] # <<>>

\* ---------------------------------------------------------------------
\* Commands that take a timeframe string (SpecCommands): export of
\* dukascopy-data-manager.py, resample-and-store and backtest-strategy of
\* forex_bt/cli.py.  reads counts the tick and partition files a command has
\* opened, writes the files it has written.
\* ---------------------------------------------------------------------
MaxExportedTicks == 1

SUPPORTED_TFS ==
    {<<"1", "m">>, <<"5", "m">>, <<"1", "5", "m">>, <<"3", "0", "m">>,
     <<"1", "h">>, <<"4", "h">>, <<"1", "D">>}

CommandIdle ==
    [fn |-> "none", tf |-> <<>>, pc |-> "idle", hour |-> 0, frames |-> 0,
     df |-> <<>>, out |-> <<>>, reads |-> 0, writes |-> 0, raised |-> ""]

\* The rows export decodes from one hour file: the five fields of a record
\* in byte order are named TIME, ASKP, BIDP, ASKV, BIDV (line 190).
export_decode(f, origin) ==
    [i \in 1..Len(f.records) |->
        [TIME |-> origin + f.records[i].ms,
         ASKP |-> f.records[i].bidp,
         BIDP |-> f.records[i].askp,
         ASKV |-> f.records[i].bidv,
         BIDV |-> f.records[i].askv]]

\* export is called: lines 148-179 build the list of hour files.
ExportStart ==
    \E tf \in TfStrings :
        /\ applied.pc = "idle"
        /\ applied' = [CommandIdle EXCEPT !.fn = "export", !.tf = tf, !.pc = "read"]
        /\ StoreUnchanged

\* Lines 183-196: the next hour file is read, or, after the last one, the
\* frames are concatenated.
ExportRead ==
    /\ applied.fn = "export"
    /\ applied.pc = "read"
    /\ IF applied.hour > MaxHour
       THEN applied' = IF applied.frames = 0
                       THEN [applied EXCEPT !.pc = "raised", !.raised = "ValueError"]
                       ELSE [applied EXCEPT !.pc = "aggregate"]
       ELSE LET f == download[applied.hour]
                next == applied.hour + 1
            IN  applied' =
                  IF f.kind \in {"missing", "zero_length"}
                  THEN [applied EXCEPT !.hour = next]
                  ELSE IF f.kind = "malformed"
                  THEN [applied EXCEPT !.pc = "raised", !.raised = "LZMAError",
                                       !.reads = @ + 1]
                  ELSE IF f.kind = "truncated"
                  THEN [applied EXCEPT !.pc = "raised", !.raised = "EOFError",
                                       !.reads = @ + 1]
                  ELSE IF RawLength(f) % RecordWidth # 0
                  THEN [applied EXCEPT !.pc = "raised", !.raised = "ValueError",
                                       !.reads = @ + 1]
                  ELSE [applied EXCEPT
                           !.hour = next, !.reads = @ + 1, !.frames = @ + 1,
                           !.df = @ \o export_decode(f, applied.hour * MsPerHour)]
    /\ StoreUnchanged

\* Line 207: the frame is aggregated; the timeframe string is parsed here.
ExportAggregate ==
    /\ applied.fn = "export"
    /\ applied.pc = "aggregate"
    /\ \E o \in aggregate_data(applied.df, applied.tf) :
          applied' = IF o.raised # ""
                     THEN [applied EXCEPT !.pc = "raised", !.raised = o.raised]
                     ELSE [applied EXCEPT !.pc = "write", !.out = o.out]
    /\ StoreUnchanged

\* Lines 212-214: the csv file is written.
ExportWrite ==
    /\ applied.fn = "export"
    /\ applied.pc = "write"
    /\ applied' = [applied EXCEPT !.pc = "done", !.writes = @ + 1]
    /\ StoreUnchanged

\* resample-and-store or backtest-strategy is called: the timeframe is
\* looked up in SUPPORTED_TFS first.
CliStart ==
    \E fn \in {"resample_and_store_cmd", "backtest_strategy_cmd"},
       tf \in TfStrings \cup SUPPORTED_TFS :
        /\ applied.pc = "idle"
        /\ applied' = IF tf \notin SUPPORTED_TFS
                      THEN [CommandIdle EXCEPT !.fn = fn, !.tf = tf, !.pc = "raised",
                                               !.raised = "BadParameter"]
                      ELSE [CommandIdle EXCEPT !.fn = fn, !.tf = tf, !.pc = "run"]
        /\ StoreUnchanged

\* The body of the command: partition files are read (and tick files, for
\* resample-and-store, which also writes partitions).
CliRun ==
    /\ applied.fn \in {"resample_and_store_cmd", "backtest_strategy_cmd"}
    /\ applied.pc = "run"
    /\ applied' = [applied EXCEPT
                      !.pc = "done", !.reads = @ + 1,
                      !.writes = IF applied.fn = "resample_and_store_cmd" THEN @ + 1 ELSE @]
    /\ StoreUnchanged

InitCommands ==
    /\ files = <<>>
    /\ dirs = {}
    /\ inflight = {}
    /\ call = NoCall
    /\ result = <<>>
    /\ latest = [k \in Assets \X Tfs |-> [t \in Times |-> {}]]
    /\ superseded = {}
    /\ ncalls = 0
    /\ procs = <<>>
    /\ reader = <<>>
    /\ download \in {dl \in [Hours -> HourFiles] : TotalTicks(dl, MaxHour) <= MaxExportedTicks}
    /\ stream = <<>>
    /\ applied = CommandIdle

NextCommands ==
    \/ ExportStart
    \/ ExportRead
    \/ ExportAggregate
    \/ ExportWrite
    \/ CliStart
    \/ CliRun

SpecCommands == InitCommands /\ [][NextCommands]_vars

\* The grammar <positive integer><unit>, unit one of t, s, m, h, D, W.
ValidTf(tf) ==
    /\ Len(tf) >= 2
    /\ tf[Len(tf)] \in {"t", "s", "m", "h", "D", "W"}
    /\ IsDigits(SubSeq(tf, 1, Len(tf) - 1))
    /\ DigitsValue(SubSeq(tf, 1, Len(tf) - 1)) >= 1

\* C18: a command given a timeframe string that is not <positive
\* integer><unit> rejects it before it has read any tick or partition file
\* and before it has written any file.
C18_ValidationBeforeIO ==
    (applied.pc # "idle" /\ ~ValidTf(applied.tf)) =>
        /\ applied.reads = 0
        /\ applied.writes = 0
        /\ applied.pc \in {"raised", "done"} => applied.raised # ""

\* ---------------------------------------------------------------------
\* Fetcher adapter: forex_bt/dukascopy_integration.py (SpecFetch).  applied
\* holds the attributes of the wrapped module and the calls made to it.
\* ---------------------------------------------------------------------
MaxFetchCalls == 1

Digit(n) == CASE n = 0 -> "0" [] n = 1 -> "1" [] n = 2 -> "2" [] n = 3 -> "3" [] n = 4 -> "4"
              [] n = 5 -> "5" [] n = 6 -> "6" [] n = 7 -> "7" [] n = 8 -> "8" [] n = 9 -> "9"

\* The decimal digits of n, zero-padded to the given width.
Decimal(n, width) == [i \in 1..width |-> Digit(Pad(n, width)[i])]

\* Faulty variant: month and day are written without zero padding.
strftime_unpadded(date) ==
    Decimal(date.year, 4) \o <<"-">> \o Decimal(date.month, 1) \o <<"-">> \o Decimal(date.day, 1)

\* date.strftime("%Y-%m-%d"), for years of four digits.
strftime(date) ==
    Decimal(date.year, 4) \o <<"-">> \o Decimal(date.month, 2) \o <<"-">> \o Decimal(date.day, 2)

\* The values a date argument may take: a datetime, a str, None.
DateValues ==
    [type : {"datetime"}, year : {2023, 2024}, month : {1}, day : {2}]
        \cup [type : {"datetime"}, year : {2023, 2024}, month : {12}, day : {31}]

Strs == {[type |-> "str", chars |-> <<"2", "0", "2", "4", "-", "0", "1", "-", "0", "8">>]}

NoneValue == [type |-> "None"]

_date_to_str(date) ==
    IF date.type = "None" THEN <<>>
    ELSE IF date.type = "str" THEN date.chars
    ELSE strftime(date)

FetchIdle == [fn |-> "none", attrs |-> {}, args |-> <<>>, calls |-> <<>>, raised |-> "", n |-> 0]

\* DukascopyModule.download(asset, start, end, concurrent=, force=).
Download ==
    \E asset \in Assets, start \in DateValues \cup Strs,
       end \in DateValues \cup Strs \cup {NoneValue},
       concurrent \in {0, 2}, force \in BOOLEAN :
        /\ applied.n < MaxFetchCalls
        /\ applied' =
             [applied EXCEPT
                !.fn = "download",
                !.n = @ + 1,
                !.args = [asset |-> asset, start |-> start, end |-> end,
                          concurrent |-> concurrent, force |-> force],
                !.raised = IF "download" \in applied.attrs THEN "" ELSE "AttributeError",
                !.calls = IF "download" \in applied.attrs
                          THEN Append(@, [func |-> "download", assets |-> <<asset>>,
                                          start |-> _date_to_str(start),
                                          end |-> _date_to_str(end),
                                          concurrent |-> concurrent, force |-> force])
                          ELSE @]
        /\ StoreUnchanged

\* DukascopyModule.update(asset, start, concurrent=, force=).
Update ==
    \E asset \in Assets, start \in DateValues \cup Strs \cup {NoneValue},
       concurrent \in {0, 2}, force \in BOOLEAN :
        /\ applied.n < MaxFetchCalls
        /\ applied' =
             [applied EXCEPT
                !.fn = "update",
                !.n = @ + 1,
                !.args = [asset |-> asset, start |-> start,
                          concurrent |-> concurrent, force |-> force],
                !.raised = IF "update" \in applied.attrs THEN "" ELSE "AttributeError",
                !.calls = IF "update" \in applied.attrs
                          THEN Append(@, [func |-> "update", assets |-> <<asset>>,
                                          start |-> _date_to_str(start),
                                          concurrent |-> concurrent, force |-> force])
                          ELSE @]
        /\ StoreUnchanged

InitFetch ==
    /\ NoStore
    /\ \E attrs \in SUBSET {"download", "update"} :
          applied = [FetchIdle EXCEPT !.attrs = attrs]

NextFetch == Download \/ Update

SpecFetch == InitFetch /\ [][NextFetch]_vars

\* s is the 'YYYY-MM-DD' string of the date value v: the date itself for a
\* datetime, the string as given for a str, '' for None.
Rendered(v, s) ==
    IF v.type = "None" THEN s = <<>>
    ELSE IF v.type = "str" THEN s = v.chars
    ELSE /\ Len(s) = 10
         /\ s[5] = "-" /\ s[8] = "-"
         /\ IsDigits(SubSeq(s, 1, 4)) /\ DigitsValue(SubSeq(s, 1, 4)) = v.year
         /\ IsDigits(SubSeq(s, 6, 7)) /\ DigitsValue(SubSeq(s, 6, 7)) = v.month
         /\ IsDigits(SubSeq(s, 9, 10)) /\ DigitsValue(SubSeq(s, 9, 10)) = v.day

\* C19: each DukascopyModule.download call makes exactly one call to the
\* wrapped module's download, with the asset in a one-element list, start
\* and end as 'YYYY-MM-DD' strings ('' for an end of None) and concurrent
\* and force as given; each DukascopyModule.update call makes exactly one
\* call to the module's update with [asset], the start string, concurrent
\* and force, and no end argument.
C19_AdapterTranslation ==
    [][(applied'.n = applied.n + 1 /\ applied'.raised = "") =>
          /\ Len(applied'.calls) = Len(applied.calls) + 1
          /\ SubSeq(applied'.calls, 1, Len(applied.calls)) = applied.calls
          /\ LET c == applied'.calls[Len(applied'.calls)]
                 a == applied'.args
             IN  /\ c.func = applied'.fn
                 /\ c.assets = <<a.asset>>
                 /\ Rendered(a.start, c.start)
                 /\ c.concurrent = a.concurrent
                 /\ c.force = a.force
                 /\ IF applied'.fn = "download"
                    THEN /\ DOMAIN c = {"func", "assets", "start", "end", "concurrent", "force"}
                         /\ Rendered(a.end, c.end)
                    ELSE DOMAIN c = {"func", "assets", "start", "concurrent", "force"}]_vars

\* download("EURUSD", datetime(2023, 1, 2), None, ...) has called the module
\* with "2023-01-02" and "".
C19_Witness ==
    /\ applied.fn = "download"
    /\ Len(applied.calls) = 1
    /\ applied.args.end = NoneValue
    /\ applied.calls[1].assets = <<"EURUSD">>
    /\ applied.calls[1].start = <<"2", "0", "2", "3", "-", "0", "1", "-", "0", "2">>
    /\ applied.calls[1].end = <<>>

(***************************************************************************)
(* Completeness of the range read (Spec).                                  *)
(***************************************************************************)
\* The (year, month) pairs a load of the current call enumerates.
EnumeratedMonths ==
    LET months == Months(dirs, call.asset, call.tf, call.start, call.end)
    IN  {months[i] : i \in 1..Len(months)}

WithinBounds(t) ==
    /\ call.start # None => call.start <= t
    /\ call.end # None => t <= call.end

\* C20: on a store reached by upserts, parquet_load_range with start <= end, or
\* with start omitted, returns a bar for every timestamp a partition file of
\* (asset, timeframe) holds within [start, end]; with a start the months
\* enumerated cover every month from start's through end's, the month that
\* begins exactly at end included, and with start omitted every partition of
\* the key is enumerated.
C20_RangeReadComplete ==
    (LoadReturned /\ (call.start = None \/ call.end # None)) =>
        /\ \A p \in KeyPaths(call.asset, call.tf) : \A i \in 1..Len(files[p]) :
               WithinBounds(files[p][i].datetime)
                   => /\ CountAt(result, files[p][i].datetime) = 1
                      /\ \E j \in 1..Len(result) :
                            /\ result[j].datetime = files[p][i].datetime
                            /\ result[j].val \in PayloadsAt(files[p], result[j].datetime)
        /\ call.start # None =>
               \A t \in Times : WithinBounds(t) => GroupKey(t) \in EnumeratedMonths
        /\ call.start = None =>
               \A p \in KeyPaths(call.asset, call.tf) : <<p[3], p[4]>> \in EnumeratedMonths

\* C20 witness: a load whose end is exactly the first instant of a month, the
\* month after start's, has returned the bar stored at that instant together
\* with a bar of start's month.
C20_Witness ==
    /\ LoadReturned
    /\ call.start # None /\ call.end # None
    /\ MonthIndex(call.start) < MonthIndex(call.end)
    /\ MonthStart(MonthIndex(call.end)) = call.end
    /\ \E p \in KeyPaths(call.asset, call.tf) : \E i \in 1..Len(files[p]) :
           files[p][i].datetime = call.end
    /\ CountAt(result, call.end) = 1
    /\ CountAt(result, call.start) = 1

\* C20 witness without a start: a load with start omitted has returned bars
\* of two different partitions of the key.
C20_WitnessNoStart ==
    /\ LoadReturned
    /\ call.start = None
    /\ \E i, j \in 1..Len(result) :
           MonthIndex(result[i].datetime) # MonthIndex(result[j].datetime)

\* ---------------------------------------------------------------------
\* The two decoders of an hour file (SpecLayout): decode_hour_file of
\* forex_bt/ticks.py, whose ticks aggregate_ticks_to_1m turns into the
\* stored 1-minute bars, and the read loop of export of
\* dukascopy-data-manager.py, whose frame aggregate_data turns into the
\* exported bars.  Both are applied to the same file.
\* ---------------------------------------------------------------------
MaxLayoutTicks == 2

\* A 20-byte record as its five 4-byte fields in byte order.  The fields are
\* named as DTYPE of ticks.py names them (lines 15-21): bytes 0-3 ms, 4-7
\* bidp, 8-11 askp, 12-15 bidv, 16-19 askv.
LayoutRecords ==
    [ms : 0..(MsPerHour - 1), bidp : Bidps, askp : Bidps, bidv : Bidvs, askv : Bidvs]

\* Complete hour files of whole records in time order.
LayoutFiles ==
    {f \in UNION {[kind : {"data"}, records : [1..n -> LayoutRecords], extra : {0}] :
                     n \in 1..MaxLayoutTicks} :
        \A i \in 1..(Len(f.records) - 1) : f.records[i].ms <= f.records[i + 1].ms}

\* The timeframe of the stored bars, as export takes it.
OneMinute == <<"1", "m">>

LayoutIdle(f) ==
    [fn |-> "layout", file |-> f, streamed |-> FALSE, exported |-> FALSE,
     ticks |-> <<>>, minute_bars |-> <<>>, df |-> <<>>, agg_df |-> <<>>]

InitLayout ==
    /\ NoStore
    /\ \E f \in LayoutFiles : applied = LayoutIdle(f)

\* The streaming path: lines 112-118 of stream_aggregate_1m for one hour.
StreamHour ==
    /\ applied.fn = "layout"
    /\ ~applied.streamed
    /\ LET decoded == decode_hour_file(applied.file, 0)
       IN  \E minute_bars \in aggregate_ticks_to_1m(decoded.ticks) :
              applied' = [applied EXCEPT !.streamed = TRUE,
                                         !.ticks = decoded.ticks,
                                         !.minute_bars = minute_bars]
    /\ StoreUnchanged

\* The export path: lines 190-207 of export for one hour, timeframe 1m.
ExportHour ==
    /\ applied.fn = "layout"
    /\ ~applied.exported
    /\ LET df == export_decode(applied.file, 0)
       IN  \E o \in aggregate_data(df, OneMinute) :
              applied' = [applied EXCEPT !.exported = TRUE, !.df = df,
                                         !.agg_df = o.out]
    /\ StoreUnchanged

NextLayout == StreamHour \/ ExportHour

SpecLayout == InitLayout /\ [][NextLayout]_vars

BothDecoded == applied.fn = "layout" /\ applied.streamed /\ applied.exported

\* C21: for every hour file, the price and volume decode_hour_file reads from
\* a record equal the bid price and bid volume the export path reads from the
\* same record, and the 1-minute bars the two paths build from the file have
\* the same prices and volumes.
C21_DecodersAgree ==
    BothDecoded =>
        /\ Len(applied.ticks) = Len(applied.df)
        /\ \A i \in 1..Len(applied.ticks) :
               /\ applied.ticks[i].price = applied.df[i].BIDP
               /\ applied.ticks[i].volume = applied.df[i].BIDV
        /\ Len(applied.minute_bars) = Len(applied.agg_df)
        /\ \A i \in 1..Len(applied.minute_bars) :
               /\ applied.minute_bars[i].Open = applied.agg_df[i].open
               /\ applied.minute_bars[i].High = applied.agg_df[i].high
               /\ applied.minute_bars[i].Low = applied.agg_df[i].low
               /\ applied.minute_bars[i].Close = applied.agg_df[i].close
               /\ applied.minute_bars[i].Volume = applied.agg_df[i].vol

\* Both paths cut the file into the same minute windows: the bars differ in
\* their values only.
C21_SameWindows ==
    BothDecoded =>
        /\ Len(applied.minute_bars) = Len(applied.agg_df)
        /\ \A i \in 1..Len(applied.minute_bars) :
               applied.minute_bars[i].datetime = applied.agg_df[i].date

\* On the files whose records carry the same value in bytes 4-7 and 8-11 and
\* the same value in bytes 12-15 and 16-19 the two paths do agree.
C21_AgreeOnSymmetricFiles ==
    (BothDecoded /\ \A i \in 1..Len(applied.file.records) :
                        /\ applied.file.records[i].bidp = applied.file.records[i].askp
                        /\ applied.file.records[i].bidv = applied.file.records[i].askv)
        => /\ applied.minute_bars # <<>>
           /\ \A i \in 1..Len(applied.minute_bars) :
               /\ applied.minute_bars[i].Open = applied.agg_df[i].open
               /\ applied.minute_bars[i].Volume = applied.agg_df[i].vol

====
